---- MODULE Spec2Model ----
(***************************************************************************)
(* The e-commerce model of src/08_comprehensive_project.py: Money,         *)
(* Product, CartItem, ShoppingCart, the Payable strategies and Order.      *)
(*                                                                         *)
(* Amounts are integers in cents (Money rounds to two decimals), weights   *)
(* are integers in thousandths of a pound.  Python objects that are        *)
(* mutated in place (CartItem) live in a heap and are held by reference;   *)
(* products are shared by id, so every holder of a product sees the same   *)
(* price and in_stock flag.  A raised exception is recorded in last.outcome *)
(* and leaves every assignment after the raise undone.                     *)
(*                                                                         *)
(* Calls made on a value itself (the operations of Money,                  *)
(* Product.apply_discount, the payment strategies) are recorded in call,   *)
(* with their arguments and the value or exception they gave; amounts      *)
(* passed to Money(...) are integers in thousandths of a dollar.           *)
(***************************************************************************)
EXTENDS Integers, Sequences, FiniteSets, TLC

\* ---------------------------------------------------------------- bounds
NumProducts == 2      \* products that exist (Product._id in 1..NumProducts)
MaxLines == 2         \* add_item is not called on a cart that holds MaxLines lines
MaxQty == 2           \* quantities passed in, and line quantities, are at most MaxQty
MaxUuid == 2          \* uuid.uuid4() is called at most MaxUuid times
MaxCents == 2         \* amounts passed to Money(...) are at most MaxCents cents
MaxAddresses == 2     \* a user holds at most MaxAddresses addresses
MaxConstructed == 3   \* products constructed besides the catalog's
MaxHistory == 3       \* an account records at most MaxHistory transactions

Products == 1..NumProducts
QtyArgs == (0 - 1)..MaxQty
Percentages == {10, 150}
PercentageArgs == {0 - 1, 0, 10, 100, 101}

\* The amounts passed to Money(...), in thousandths of a dollar: whole cents,
\* and amounts 0.004 and 0.006 above a whole cent (round(amount, 2) rounds
\* the one down and the other up, whatever its binary float is).
AmountArgs == {m \in (0 - 4)..(MaxCents * 10) : m % 10 \in {0, 4, 6}}
CurrencyArgs == {"USD", "usd", "EUR"}
ScalarArgs == {0 - 1, 0, 1, 2}

\* ------------------------------------------------------------- exceptions
ValueError == [error |-> "ValueError"]
TypeError == [error |-> "TypeError"]
\* ValueError("Cannot add ... and ..."), ("Cannot subtract ... from ..."),
\* ("Cannot compare ... with ...")
CurrencyMismatch == [error |-> "ValueError", message |-> "currency"]
IsError(x) == "error" \in DOMAIN x

\* ------------------------------------------------------------- evaluation
\* Python evaluates an argument or a local variable once: F of the value of
\* e, and G of the values of e1 and e2.
Once(e, F(_)) == CHOOSE r \in {F(x) : x \in {e}} : TRUE
Once2(e1, e2, G(_, _)) == CHOOSE r \in {G(x, y) : x \in {e1}, y \in {e2}} : TRUE

\* ------------------------------------------------------------------ Money
\* round(x, 2) of the non-negative amount num/den cents: nearest cent, ties
\* to even (the exact value is rounded, not its binary float).
Round2(num, den) ==
    Once2(num \div den, num % den, LAMBDA q, r :
        IF 2 * r < den THEN q
        ELSE IF 2 * r > den THEN q + 1
        ELSE IF q % 2 = 0 THEN q ELSE q + 1)

\* Money.__init__(amount, currency) for an amount that is a whole number of
\* cents and a currency in upper case: round and upper leave both as they are
Money(amount, currency) ==
    IF amount < 0 THEN ValueError
    ELSE [amount |-> amount, currency |-> currency]

\* currency.upper(), for the currencies passed in
upper(currency) == IF currency = "usd" THEN "USD" ELSE currency

\* a constructor that accepts every amount
Money_init_unchecked(amount, currency) ==
    [amount |-> Round2(amount, 10), currency |-> upper(currency)]

\* Money.__init__(amount, currency) for an amount in thousandths of a dollar:
\* the Money holds round(amount, 2), in cents
Money_init(amount, currency) ==
    IF amount < 0 THEN ValueError
    ELSE [amount |-> Round2(amount, 10), currency |-> upper(currency)]

\* an addition that does not compare the currencies
Money_add_any_currency(a, b) ==
    Once2(a, b, LAMBDA self, other :
        IF IsError(self) THEN self
        ELSE IF IsError(other) THEN other
        ELSE Money(self.amount + other.amount, self.currency))

\* Money.__add__; an operand that is an exception stands for the exception
\* having propagated before the call.
Money_add(a, b) ==
    Once2(a, b, LAMBDA self, other :
        IF IsError(self) THEN self
        ELSE IF IsError(other) THEN other
        ELSE IF self.currency # other.currency THEN CurrencyMismatch
        ELSE Money(self.amount + other.amount, self.currency))

\* Money.__sub__
Money_sub(self, other) ==
    IF self.currency # other.currency THEN CurrencyMismatch
    ELSE IF self.amount - other.amount < 0 THEN ValueError
    ELSE Money(self.amount - other.amount, self.currency)

\* Money.__mul__ by an int scalar
Money_mul(a, scalar) ==
    Once(a, LAMBDA self :
        IF IsError(self) THEN self
        ELSE IF scalar < 0 THEN ValueError
        ELSE Money(self.amount * scalar, self.currency))

\* Money.__eq__ for two Money objects
Money_eq(self, other) ==
    self.amount = other.amount /\ self.currency = other.currency

\* Money.__lt__: a bool, or the exception raised
Money_lt(self, other) ==
    IF self.currency # other.currency THEN CurrencyMismatch
    ELSE [bool |-> self.amount < other.amount]

\* Money.__hash__: the tuple that is hashed
Money_hash(self) == <<self.amount, self.currency>>

\* Money.__str__: f"${amount:.2f} {currency}", as a sequence of its parts
Money_str(self) ==
    <<"$", self.amount \div 100, ".", (self.amount % 100) \div 10, self.amount % 10,
      " ", self.currency>>

\* --------------------------------------------------------------- products
\* The catalog: Clothing, Book, Electronics (the demonstration's products).
Kind(p) ==
    IF p % 3 = 1 THEN "Clothing" ELSE IF p % 3 = 2 THEN "Book" ELSE "Electronics"

\* the price each product is constructed with, in cents
InitialAmount(p) ==
    IF Kind(p) = "Clothing" THEN 1999
    ELSE IF Kind(p) = "Book" THEN 2999 ELSE 129999

\* Book._pages
Pages(p) == 350

\* Book / Electronics / Clothing .get_shipping_weight(), thousandths of a pound
get_shipping_weight(p) ==
    IF Kind(p) = "Book" THEN (IF 500 >= Pages(p) * 5 THEN 500 ELSE Pages(p) * 5)
    ELSE IF Kind(p) = "Electronics" THEN 5500
    ELSE 800

\* The currencies the products were priced in: every product in USD, or the
\* last product in EUR.
Catalogs ==
    { [p \in Products |-> "USD"],
      [p \in Products |-> IF p = NumProducts THEN "EUR" ELSE "USD"] }

\* --------------------------------------------------------- payment methods
None == [kind |-> "None"]

\* the strings are sequences of characters
CreditCards ==
    { [kind |-> "CreditCard", card_number |-> <<"9", "0", "1", "2">>,
       expiry_month |-> 12, expiry_year |-> 2025, cvv |-> <<"1", "2", "3">>],
      [kind |-> "CreditCard", card_number |-> <<"9", "0", "1", "2">>,
       expiry_month |-> 12, expiry_year |-> 2025, cvv |-> <<"1", "2">>] }

PayPals ==
    { [kind |-> "PayPal", email |-> <<"j", "@", "e">>, is_verified |-> TRUE],
      [kind |-> "PayPal", email |-> <<"j", "e">>, is_verified |-> TRUE] }

PaymentMethods == CreditCards \cup PayPals

\* the CVVs a CreditCard is constructed with: the constructor takes any string
CvvArgs ==
    { <<"1", "2">>, <<"1", "2", "3">>, <<"1", "2", "3", "4">>,
      <<"1", "2", "3", "4", "5">>, <<"a", "b", "c">>, <<"1", "2", "a", "4">> }

\* the cards validate_payment_info is called on directly
CardArgs ==
    [kind : {"CreditCard"}, card_number : {<<"9", "0", "1", "2">>},
     expiry_month : {1, 11, 12}, expiry_year : {2025, 2026}, cvv : CvvArgs]

\* str.isdigit() of a non-empty string of ASCII characters
isdigit(s) ==
    /\ Len(s) > 0
    /\ \A i \in 1..Len(s) : s[i] \in {"0", "1", "2", "3", "4", "5", "6", "7", "8", "9"}

\* what datetime.now() can return when a strategy reads it
Clocks == { [year |-> 2025, month |-> 11], [year |-> 2026, month |-> 1] }

\* x in s, for a character x and a string s
Contains(s, x) == \E i \in 1..Len(s) : s[i] = x

\* CreditCard.validate_payment_info
CreditCard_validate_payment_info(pm, now) ==
    IF pm.expiry_year < now.year THEN FALSE
    ELSE IF pm.expiry_year = now.year /\ pm.expiry_month < now.month THEN FALSE
    ELSE IF Len(pm.cvv) \notin {3, 4} THEN FALSE
    ELSE TRUE

\* PayPal.validate_payment_info
PayPal_validate_payment_info(pm) == Contains(pm.email, "@") /\ pm.is_verified

\* Payable.validate_payment_info, dispatched on the strategy's class
validate_payment_info(pm, now) ==
    IF pm.kind = "CreditCard" THEN CreditCard_validate_payment_info(pm, now)
    ELSE PayPal_validate_payment_info(pm)

\* The result record of CreditCard.process_payment / PayPal.process_payment:
\* transaction_id 0 is Python's None, uuid is the value uuid.uuid4() returns.
NoResult == [called |-> FALSE, success |-> FALSE, transaction_id |-> 0]

\* a strategy that charges without validating
Payable_process_payment_unvalidated(pm, amount, now, uuid) ==
    [called |-> TRUE, success |-> TRUE, transaction_id |-> uuid]

Payable_process_payment(pm, amount, now, uuid) ==
    IF ~validate_payment_info(pm, now)
    THEN [called |-> TRUE, success |-> FALSE, transaction_id |-> 0]
    ELSE [called |-> TRUE, success |-> TRUE, transaction_id |-> uuid]

\* ------------------------------------------------------------------ state
VARIABLES
    in_stock,        \* Product._in_stock, by product id
    price,           \* Product._price, by product id
    heap,            \* the CartItem objects alive, by reference
    cart_items,      \* ShoppingCart._items: references into heap
    order_items,     \* Order._items: references into heap
    status,          \* Order._status, "NoOrder" before the order is constructed
    payment_method,  \* Order._payment_method
    transaction_id,  \* Order._transaction_id, 0 for None
    uuids,           \* how many uuids uuid.uuid4() has handed out
    ever_shipped,    \* history: ship_order has succeeded on the order
    last,            \* the last call: its name, its outcome, the strategy's result
    moneys,          \* the Money objects of the caller's variables a, b and r
    call,            \* the last call on a value: its name, arguments and value
    password_hash,   \* User._password_hash, None before the user is constructed
    password,        \* history: the password the hash was last computed from
    addresses,       \* User._addresses
    next_id,         \* Product._next_id
    constructed,     \* the products constructed, in order: their _id and class
    account_number,  \* BankAccount.account_number, 0 before the account is constructed
    initial_balance, \* history: the constructor's initial_balance
    balance,         \* BankAccount.__balance
    pin,             \* BankAccount.__pin
    is_locked,       \* BankAccount.__is_locked
    transaction_history,  \* BankAccount.__transaction_history: type and amount
    security_question,    \* SecureBankAccount.__security_question
    security_answer,      \* SecureBankAccount.__security_answer
    failed_attempts       \* SecureBankAccount.__failed_attempts

userVars == <<password_hash, password, addresses>>
productVars == <<next_id, constructed>>
accountVars == <<account_number, initial_balance, balance, pin, is_locked,
                 transaction_history, security_question, security_answer,
                 failed_attempts>>
objectVars == <<userVars, productVars, accountVars>>

vars == <<in_stock, price, heap, cart_items, order_items, status, payment_method,
          transaction_id, uuids, ever_shipped, last, moneys, call, objectVars>>

cartVars == <<heap, cart_items, order_items>>
orderVars == <<status, payment_method, transaction_id, uuids, ever_shipped>>
\* what no method of the cart and of the order touches
valueVars == <<moneys, call, objectVars>>

\* no call on a value has been made
NoCall == [op |-> "none", args |-> <<>>, value |-> None]

\* the call op returned value r (or raised r.error) without a strategy call
Returned(op, outcome) ==
    last' = [op |-> op, outcome |-> outcome, result |-> NoResult]

Raised(op, e) == Returned(op, e.error)

\* --------------------------------------------------------------- the heap
\* the lines a list of references denotes
Lines(h, refs) == [i \in 1..Len(refs) |-> h[refs[i]]]

\* Reference counting: an object no list refers to is freed; the objects
\* left are renumbered in the order the two lists first refer to them (an
\* address is never observed, only whether two references are the same
\* object).
Compact(h, c, o) ==
    Once(<<h, c \o o, Len(c)>>, LAMBDA t :
    Once({i \in 1..Len(t[2]) : \A j \in 1..(i - 1) : t[2][j] # t[2][i]}, LAMBDA firsts :
    Once([i \in 1..Len(t[2]) |->
            Cardinality({j \in firsts : j <= (CHOOSE k \in firsts : t[2][k] = t[2][i])})],
         LAMBDA new :
            [heap |-> [k \in 1..Cardinality(firsts) |->
                          t[1][t[2][CHOOSE i \in firsts : new[i] = k]]],
             cart_items |-> [i \in 1..t[3] |-> new[i]],
             order_items |-> [i \in 1..(Len(t[2]) - t[3]) |-> new[t[3] + i]]])))

Store(h, c, o) ==
    \E n \in {Compact(h, c, o)} :
        /\ heap' = n.heap
        /\ cart_items' = n.cart_items
        /\ order_items' = n.order_items

\* CartItem.__init__
CartItem(product, quantity) ==
    IF quantity <= 0 THEN ValueError
    ELSE IF ~in_stock[product] THEN ValueError
    ELSE [product |-> product, quantity |-> quantity]

\* CartItem.total_price
total_price(item) == Money_mul(price[item.product], item.quantity)

\* the position of the first line of refs whose product is p, 0 if none
FirstLine(h, refs, p) ==
    IF \E i \in 1..Len(refs) : h[refs[i]].product = p
    THEN CHOOSE i \in 1..Len(refs) :
            /\ h[refs[i]].product = p
            /\ \A j \in 1..(i - 1) : h[refs[j]].product # p
    ELSE 0

\* ------------------------------------------------------------------- Init
\* The products exist and are in stock, the user's cart is empty, no order
\* has been constructed.
InitShop ==
    /\ in_stock = [p \in Products |-> TRUE]
    /\ \E currency \in Catalogs :
          price = [p \in Products |-> Money(InitialAmount(p), currency[p])]
    /\ heap = <<>>
    /\ cart_items = <<>>
    /\ order_items = <<>>
    /\ status = "NoOrder"
    /\ payment_method = None
    /\ transaction_id = 0
    /\ uuids = 0
    /\ ever_shipped = FALSE
    /\ last = [op |-> "__init__", outcome |-> "None", result |-> NoResult]

\* no User has been constructed
NoUser ==
    /\ password_hash = None
    /\ password = None
    /\ addresses = <<>>

\* the products of the catalog are the only ones constructed
CatalogProducts ==
    /\ next_id = NumProducts + 1
    /\ constructed = [p \in Products |-> [id |-> p, class |-> Kind(p)]]

\* no account has been constructed
NoAccount ==
    /\ account_number = 0
    /\ initial_balance = 0
    /\ balance = 0
    /\ pin = None
    /\ is_locked = FALSE
    /\ transaction_history = <<>>
    /\ security_question = None
    /\ security_answer = None
    /\ failed_attempts = 0

\* ... and no Money variable is bound
Init ==
    /\ InitShop
    /\ moneys = <<>>
    /\ call = NoCall
    /\ NoUser
    /\ CatalogProducts
    /\ NoAccount

\* ------------------------------------------------------------ Product
\* Product.in_stock setter
set_in_stock(product, value) ==
    /\ in_stock' = [in_stock EXCEPT ![product] = value]
    /\ Returned("in_stock", "None")
    /\ UNCHANGED <<price, cartVars, orderVars>>
    /\ UNCHANGED valueVars

\* a discount that accepts every percentage
apply_discount_unvalidated(product, percentage) ==
    [num |-> price[product].amount * 100 - price[product].amount * percentage,
     den |-> 100]

\* Product.apply_discount: the exception raised, or the float new_amount it
\* returns, which is not rounded: num / den cents.  (discount_amount is
\* price * percentage / 100, new_amount is price - discount_amount.)
apply_discount(product, percentage) ==
    IF ~(0 <= percentage /\ percentage <= 100) THEN ValueError
    ELSE [num |-> price[product].amount * 100 - price[product].amount * percentage,
          den |-> 100]

\* ------------------------------------------------------------ ShoppingCart
\* a lookup that never finds the product's line
add_item_finds_no_line(h, refs, p) == 0

\* add_item's loop "for item in self._items: if item.product == product":
\* the position of the line it adds the quantity to, 0 if it falls through
add_item_line(h, refs, p) == FirstLine(h, refs, p)

\* ShoppingCart.total_amount: Money(0) for an empty cart, else the first
\* line's total_price with every later line's total_price added to it; a
\* Money, or the exception raised on the way
ShoppingCart_total_amount(h, refs) ==
    LET F[i \in 1..Len(refs)] ==
            IF i = 1 THEN total_price(h[refs[1]])
            ELSE Money_add(F[i - 1], total_price(h[refs[i]]))
    IN  IF refs = <<>> THEN Money(0, "USD") ELSE F[Len(refs)]

\* a stock check that lets every product through
out_of_stock_never(product) == FALSE

\* "not product.in_stock"
out_of_stock(product) == ~in_stock[product]

\* ShoppingCart.add_item
add_item(product, quantity) ==
    LET i == add_item_line(heap, cart_items, product) IN
    /\ Len(cart_items) < MaxLines \/ i # 0
    /\ i # 0 => heap[cart_items[i]].quantity + quantity \in (0 - 1)..MaxQty
    /\ IF out_of_stock(product)
       THEN Raised("add_item", ValueError) /\ UNCHANGED cartVars
       ELSE IF i # 0
       THEN /\ heap' = [heap EXCEPT ![cart_items[i]].quantity = @ + quantity]
            /\ UNCHANGED <<cart_items, order_items>>
            /\ Returned("add_item", "None")
       ELSE LET item == CartItem(product, quantity) IN
            IF IsError(item)
            THEN Raised("add_item", item) /\ UNCHANGED cartVars
            ELSE /\ Store(Append(heap, item), Append(cart_items, Len(heap) + 1),
                          order_items)
                 /\ Returned("add_item", "None")
    /\ UNCHANGED <<in_stock, price, orderVars>>
    /\ UNCHANGED valueVars

\* the references of refs whose product is not p
Without(h, refs, p) ==
    LET F[i \in 0..Len(refs)] ==
            IF i = 0 THEN <<>>
            ELSE IF h[refs[i]].product # p THEN Append(F[i - 1], refs[i])
                 ELSE F[i - 1]
    IN  F[Len(refs)]

\* ShoppingCart.remove_item
remove_item(product) ==
    /\ Store(heap, Without(heap, cart_items, product), order_items)
    /\ Returned("remove_item", "None")
    /\ UNCHANGED <<in_stock, price, orderVars>>
    /\ UNCHANGED valueVars

\* a test that lets the quantity 0 through
update_quantity_removes_negative(new_quantity) == new_quantity < 0

\* "new_quantity <= 0"
update_quantity_removes(new_quantity) == new_quantity <= 0

\* ShoppingCart.update_quantity
update_quantity(product, new_quantity) ==
    LET i == FirstLine(heap, cart_items, product) IN
    /\ IF update_quantity_removes(new_quantity)
       THEN /\ Store(heap, Without(heap, cart_items, product), order_items)
            /\ Returned("update_quantity", "None")
       ELSE IF i # 0
       THEN /\ heap' = [heap EXCEPT ![cart_items[i]].quantity = new_quantity]
            /\ UNCHANGED <<cart_items, order_items>>
            /\ Returned("update_quantity", "None")
       ELSE Raised("update_quantity", ValueError) /\ UNCHANGED cartVars
    /\ UNCHANGED <<in_stock, price, orderVars>>
    /\ UNCHANGED valueVars

\* ShoppingCart.clear
clear ==
    /\ Store(heap, <<>>, order_items)
    /\ Returned("clear", "None")
    /\ UNCHANGED <<in_stock, price, orderVars>>
    /\ UNCHANGED valueVars

\* the check as it would answer for a @runtime_checkable Discountable
isinstance_runtime_checkable == "True"

\* isinstance(item.product, Discountable): Discountable is a typing.Protocol
\* that is not decorated @runtime_checkable, so the check raises TypeError.
isinstance_Discountable == "TypeError"

\* ShoppingCart.apply_discount_to_item
apply_discount_to_item(product, percentage) ==
    LET i == FirstLine(heap, cart_items, product)
        discounted_price == apply_discount(product, percentage)
    IN
    /\ IF i = 0
       THEN Raised("apply_discount_to_item", ValueError) /\ UNCHANGED price
       ELSE IF isinstance_Discountable = "TypeError"
       THEN Raised("apply_discount_to_item", TypeError) /\ UNCHANGED price
       ELSE IF isinstance_Discountable = "False"
       THEN Returned("apply_discount_to_item", "None") /\ UNCHANGED price
       ELSE IF IsError(discounted_price)
       THEN Raised("apply_discount_to_item", discounted_price) /\ UNCHANGED price
       ELSE /\ price' = [price EXCEPT ![product] =
                            Money(Round2(discounted_price.num, discounted_price.den),
                                  price[product].currency)]
            /\ Returned("apply_discount_to_item", "None")
    /\ UNCHANGED <<in_stock, cartVars, orderVars>>
    /\ UNCHANGED valueVars

\* ------------------------------------------------------------------ Order
\* [CartItem(item.product, item.quantity) for item in cart._items]: the new
\* objects, or the exception the first failing CartItem(...) raises
CopiedItems(h, refs) ==
    LET copies == [i \in 1..Len(refs) |-> CartItem(h[refs[i]].product, h[refs[i]].quantity)]
    IN  IF \E i \in 1..Len(refs) : IsError(copies[i]) THEN ValueError
        ELSE [items |-> copies]

\* Order._items holding the cart's own CartItem objects
OrderItems_shared(h, refs) == [heap |-> h, order_items |-> refs]

\* the heap and the references Order._items holds after the comprehension
OrderItems(h, refs) ==
    [heap |-> h \o CopiedItems(h, refs).items,
     order_items |-> [i \in 1..Len(refs) |-> Len(h) + i]]

\* an emptiness check that lets every cart through
cart_never_empty(refs) == FALSE

\* "not cart._items"
cart_is_empty(refs) == refs = <<>>

\* Order.__init__
Order_init ==
    /\ status = "NoOrder"
    /\ IF cart_is_empty(cart_items)
       THEN Raised("Order", ValueError) /\ UNCHANGED <<cartVars, status>>
       ELSE IF IsError(CopiedItems(heap, cart_items))
       THEN Raised("Order", ValueError) /\ UNCHANGED <<cartVars, status>>
       ELSE LET new == OrderItems(heap, cart_items) IN
            /\ Store(new.heap, cart_items, new.order_items)
            /\ status' = "Pending"
            /\ Returned("Order", "None")
    /\ payment_method' = None
    /\ transaction_id' = 0
    /\ UNCHANGED <<in_stock, price, uuids, ever_shipped>>
    /\ UNCHANGED valueVars

\* sum((item.total_price for item in self._items), Money(0))
subtotal(h, refs) ==
    LET F[i \in 0..Len(refs)] ==
            IF i = 0 THEN Money(0, "USD")
            ELSE Money_add(F[i - 1], total_price(h[refs[i]]))
    IN  F[Len(refs)]

\* sum(item.product.get_shipping_weight() * item.quantity for item in self._items)
total_weight(h, refs) ==
    LET F[i \in 0..Len(refs)] ==
            IF i = 0 THEN 0
            ELSE F[i - 1] + get_shipping_weight(h[refs[i]].product) * h[refs[i]].quantity
    IN  F[Len(refs)]

\* Order._calculate_shipping
calculate_shipping(h, refs) ==
    Once(total_weight(h, refs), LAMBDA weight :
        IF weight <= 1000 THEN Money(599, "USD")
        ELSE IF weight <= 5000 THEN Money(999, "USD")
        ELSE Money(1599, "USD"))

\* Order._calculate_tax: 8.5% of the subtotal
calculate_tax(sub) == Once(Round2(sub.amount * 85, 1000), LAMBDA tax : Money(tax, "USD"))

\* Order.total_amount: a Money, or the exception raised on the way
total_amount(h, refs) ==
    Once(subtotal(h, refs), LAMBDA sub :
        IF IsError(sub) THEN sub
        ELSE Once(Money_add(sub, calculate_shipping(h, refs)), LAMBDA with_shipping :
                Money_add(with_shipping, calculate_tax(sub))))

\* Order.set_payment_method
set_payment_method(pm) ==
    /\ status # "NoOrder"
    /\ payment_method' = pm
    /\ Returned("set_payment_method", "None")
    /\ UNCHANGED <<in_stock, price, cartVars, status, transaction_id, uuids, ever_shipped>>
    /\ UNCHANGED valueVars

\* a check that takes every result for a success
payment_always_succeeded(result) == TRUE

\* result["success"]
payment_succeeded(result) == result.success

\* a missing payment method taken for a refused payment
status_failed_without_method(s) == "Payment Failed"

\* the status after the raise for a missing payment method: the raise comes
\* before every assignment
status_without_method(s) == s

\* Order.process_payment; now is what the strategy reads from the clock
process_payment(now) ==
    LET total == total_amount(heap, order_items) IN
    /\ status # "NoOrder"
    /\ IF payment_method = None
       THEN /\ Raised("process_payment", ValueError)
            /\ status' = status_without_method(status)
            /\ UNCHANGED <<transaction_id, uuids>>
       ELSE IF IsError(total)
       THEN /\ Raised("process_payment", total)
            /\ UNCHANGED <<status, transaction_id, uuids>>
       ELSE LET result == Payable_process_payment(payment_method, total.amount,
                                                   now, uuids + 1) IN
            /\ result.success => uuids < MaxUuid
            /\ IF payment_succeeded(result)
               THEN /\ transaction_id' = result.transaction_id
                    /\ status' = "Paid"
                    /\ uuids' = uuids + 1
                    /\ last' = [op |-> "process_payment", outcome |-> "True",
                                result |-> result]
               ELSE /\ status' = "Payment Failed"
                    /\ last' = [op |-> "process_payment", outcome |-> "False",
                                result |-> result]
                    /\ UNCHANGED <<transaction_id, uuids>>
    /\ UNCHANGED <<in_stock, price, cartVars, payment_method, ever_shipped>>
    /\ UNCHANGED valueVars

\* a check that also lets a Pending order through
ship_order_rejects_paid_or_pending(s) == s \notin {"Paid", "Pending"}

\* self._status != "Paid"
ship_order_rejects(s) == s # "Paid"

\* Order.ship_order
ship_order ==
    /\ status # "NoOrder"
    /\ IF ship_order_rejects(status)
       THEN Raised("ship_order", ValueError) /\ UNCHANGED <<status, ever_shipped>>
       ELSE /\ status' = "Shipped"
            /\ ever_shipped' = TRUE
            /\ Returned("ship_order", "None")
    /\ UNCHANGED <<in_stock, price, cartVars, payment_method, transaction_id, uuids>>
    /\ UNCHANGED valueVars

\* a delivery that asks for no status
deliver_order_rejects_never(s) == FALSE

\* self._status != "Shipped"
deliver_order_rejects(s) == s # "Shipped"

\* Order.deliver_order
deliver_order ==
    /\ status # "NoOrder"
    /\ IF deliver_order_rejects(status)
       THEN Raised("deliver_order", ValueError) /\ UNCHANGED status
       ELSE status' = "Delivered" /\ Returned("deliver_order", "None")
    /\ UNCHANGED <<in_stock, price, cartVars, payment_method, transaction_id, uuids,
                   ever_shipped>>
    /\ UNCHANGED valueVars

\* a check that forgets the Shipped status
cancel_order_rejects_delivered(s) == s = "Delivered"

\* self._status in ["Shipped", "Delivered"]
cancel_order_rejects(s) == s \in {"Shipped", "Delivered"}

\* Order.cancel_order
cancel_order ==
    /\ status # "NoOrder"
    /\ IF cancel_order_rejects(status)
       THEN Raised("cancel_order", ValueError) /\ UNCHANGED status
       ELSE status' = "Cancelled" /\ Returned("cancel_order", "None")
    /\ UNCHANGED <<in_stock, price, cartVars, payment_method, transaction_id, uuids,
                   ever_shipped>>
    /\ UNCHANGED valueVars

\* ----------------------------------------------------------- calls on values
\* The caller's variables: a and b hold Money objects (references 1 and 2 of
\* moneys) and r is assigned the value of every call: when that is a Money, r
\* holds it (reference 3); when it is another value, the Money r held is
\* dropped; a call that raises assigns nothing.
Operands == {1, 2}
shopVars == <<in_stock, price, cartVars, orderVars, last>>

\* a = Money(x, c); b = Money(y, d), none of which raised
InitMoney ==
    /\ InitShop
    /\ \A p \in Products : price[p].currency = "USD"
    /\ \E x, y \in AmountArgs, c, d \in CurrencyArgs :
          /\ ~IsError(Money_init(x, c)) /\ ~IsError(Money_init(y, d))
          /\ moneys = <<Money_init(x, c), Money_init(y, d)>>
    /\ call = NoCall
    /\ NoUser
    /\ CatalogProducts
    /\ NoAccount

\* operands left as they are by an operation that wrote its result into self
operands_after_inplace(ms, self, result) ==
    [SubSeq(ms, 1, 2) EXCEPT ![self] = result]

\* a and b after a call on them: no method of Money assigns to an attribute
\* of self or other
operands_after(ms, self, result) == SubSeq(ms, 1, 2)

\* r = <call>, the call having evaluated to result (a Money or an exception)
bind_result(op, args, self, result) ==
    IF IsError(result)
    THEN /\ call' = [op |-> op, args |-> args, value |-> result]
         /\ UNCHANGED moneys
    ELSE /\ call' = [op |-> op, args |-> args, value |-> [ref |-> 3]]
         /\ moneys' = operands_after(moneys, self, result) \o <<result>>

\* r = Money(amount, currency)
call_Money(amount, currency) ==
    /\ bind_result("Money", <<amount, currency>>, 1, Money_init(amount, currency))
    /\ moneys'[1] = moneys[1]
    /\ UNCHANGED <<shopVars, objectVars>>

\* a = Money(x, c); b = Money(y, c); r = a + b, for non-negative x and y
call_Money_plus_Money(x, y, c) ==
    LET a == Money_init(x, c)
        b == Money_init(y, c)
        result == Money_add(a, b)
    IN  /\ call' = [op |-> "Money+Money", args |-> <<x, y, c>>,
                    value |-> IF IsError(result) THEN result ELSE [ref |-> 3]]
        /\ moneys' = IF IsError(result) THEN moneys ELSE <<a, b, result>>
        /\ UNCHANGED <<shopVars, objectVars>>

\* r = a + b, for any two of the operands
call_add(self, other) ==
    /\ bind_result("__add__", <<self, other>>, self, Money_add(moneys[self], moneys[other]))
    /\ UNCHANGED <<shopVars, objectVars>>

\* r = a - b
call_sub(self, other) ==
    /\ bind_result("__sub__", <<self, other>>, self, Money_sub(moneys[self], moneys[other]))
    /\ UNCHANGED <<shopVars, objectVars>>

\* r = a * scalar
call_mul(self, scalar) ==
    /\ bind_result("__mul__", <<self, scalar>>, self, Money_mul(moneys[self], scalar))
    /\ UNCHANGED <<shopVars, objectVars>>

\* r = <call>, the call having evaluated to a value that is not a Money, or
\* to an exception
observe(op, args, value) ==
    /\ call' = [op |-> op, args |-> args, value |-> value]
    /\ moneys' = IF IsError(value) THEN moneys ELSE SubSeq(moneys, 1, 2)
    /\ UNCHANGED <<shopVars, objectVars>>

\* a == b
call_eq(self, other) ==
    observe("__eq__", <<self, other>>, [bool |-> Money_eq(moneys[self], moneys[other])])

\* a < b
call_lt(self, other) ==
    observe("__lt__", <<self, other>>, Money_lt(moneys[self], moneys[other]))

\* hash(a)
call_hash(self) == observe("__hash__", <<self>>, [hash |-> Money_hash(moneys[self])])

\* str(a)
call_str(self) == observe("__str__", <<self>>, [str |-> Money_str(moneys[self])])

\* product.apply_discount(percentage), called on the product itself
call_apply_discount(product, percentage) ==
    /\ call' = [op |-> "apply_discount", args |-> <<product, percentage>>,
                value |-> apply_discount(product, percentage)]
    /\ UNCHANGED moneys
    /\ UNCHANGED <<shopVars, objectVars>>

\* payment_method.validate_payment_info(), called on the strategy itself
call_validate_payment_info(pm, now) ==
    /\ call' = [op |-> "validate_payment_info", args |-> <<pm, now>>,
                value |-> [bool |-> validate_payment_info(pm, now)]]
    /\ UNCHANGED moneys
    /\ UNCHANGED <<shopVars, objectVars>>

\* payment_method.process_payment(amount), called on the strategy itself
call_process_payment(pm, now) ==
    LET result == Payable_process_payment(pm, 0, now, uuids + 1) IN
    /\ result.success => uuids < MaxUuid
    /\ call' = [op |-> "process_payment", args |-> <<pm, now>>, value |-> result]
    /\ uuids' = IF result.success THEN uuids + 1 ELSE uuids
    /\ UNCHANGED <<in_stock, price, cartVars, status, payment_method, transaction_id,
                   ever_shipped, last, moneys, objectVars>>

\* ------------------------------------------------------------------- User
\* ch * n
chars(ch, n) == [i \in 1..n |-> ch]

\* the passwords given to User(...), verify_password and change_password
PasswordArgs ==
    { chars("a", 8), chars("b", 8), chars("a", 7), chars("b", 9), <<>> }

\* User._hash_password: the SHA-256 digest, for which no two passwords with
\* the same digest are known
hash_password(pw) == [sha256 |-> pw]

\* User.__init__ (it accepts a password of any length); no product besides
\* the catalog's and no account
InitUser ==
    /\ InitShop
    /\ \A p \in Products : price[p].currency = "USD"
    /\ moneys = <<>>
    /\ call = NoCall
    /\ \E pw \in {chars("a", 7), chars("a", 8)} :
          /\ password_hash = hash_password(pw)
          /\ password = pw
    /\ addresses = <<>>
    /\ CatalogProducts
    /\ NoAccount

\* what a call on the user leaves alone
userFrame == <<shopVars, moneys, productVars, accountVars>>

\* User.verify_password
verify_password(pw) == hash_password(pw) = password_hash

\* user.verify_password(pw), observed
call_verify_password(pw) ==
    /\ password_hash # None
    /\ call' = [op |-> "verify_password", args |-> <<pw>>,
                value |-> [bool |-> verify_password(pw)]]
    /\ UNCHANGED <<userVars, userFrame>>

\* a change that accepts a new password of any length
new_password_too_short_never(new_password) == FALSE

\* len(new_password) < 8
new_password_too_short(new_password) == Len(new_password) < 8

\* User.change_password
change_password(old_password, new_password) ==
    /\ password_hash # None
    /\ IF ~verify_password(old_password)
       THEN /\ call' = [op |-> "change_password", args |-> <<old_password, new_password>>,
                        value |-> [bool |-> FALSE]]
            /\ UNCHANGED <<password_hash, password>>
       ELSE IF new_password_too_short(new_password)
       THEN /\ call' = [op |-> "change_password", args |-> <<old_password, new_password>>,
                        value |-> ValueError]
            /\ UNCHANGED <<password_hash, password>>
       ELSE /\ password_hash' = hash_password(new_password)
            /\ password' = new_password
            /\ call' = [op |-> "change_password", args |-> <<old_password, new_password>>,
                        value |-> [bool |-> TRUE]]
    /\ UNCHANGED <<addresses, userFrame>>

\* Address.__init__
Address(street, city, state, zip_code, country) ==
    [street |-> street, city |-> city, state |-> state, zip_code |-> zip_code,
     country |-> country]

\* an address, and the five that differ from it in one field
AddressArgs ==
    { Address("1 Main St", "Springfield", "IL", "62701", "USA"),
      Address("2 Main St", "Springfield", "IL", "62701", "USA"),
      Address("1 Main St", "Shelbyville", "IL", "62701", "USA"),
      Address("1 Main St", "Springfield", "IN", "62701", "USA"),
      Address("1 Main St", "Springfield", "IL", "62702", "USA"),
      Address("1 Main St", "Springfield", "IL", "62701", "Canada") }

\* Address.__eq__
Address_eq(self, other) ==
    /\ self.street = other.street
    /\ self.city = other.city
    /\ self.state = other.state
    /\ self.zip_code = other.zip_code

\* address in self._addresses
address_in(address, list) == \E i \in 1..Len(list) : Address_eq(list[i], address)

\* a == b for two addresses, observed
call_Address_eq(self, other) ==
    /\ password_hash # None
    /\ call' = [op |-> "Address.__eq__", args |-> <<self, other>>,
                value |-> [bool |-> Address_eq(self, other)]]
    /\ UNCHANGED <<userVars, userFrame>>

\* User.add_address
add_address(address) ==
    /\ password_hash # None
    /\ IF address_in(address, addresses)
       THEN UNCHANGED addresses
       ELSE /\ Len(addresses) < MaxAddresses
            /\ addresses' = Append(addresses, address)
    /\ call' = [op |-> "add_address", args |-> <<address>>, value |-> None]
    /\ UNCHANGED <<password_hash, password, userFrame>>

\* list.remove: the list without its first element equal to address
list_remove(list, address) ==
    LET i == CHOOSE k \in 1..Len(list) :
                 /\ Address_eq(list[k], address)
                 /\ \A j \in 1..(k - 1) : ~Address_eq(list[j], address)
    IN  SubSeq(list, 1, i - 1) \o SubSeq(list, i + 1, Len(list))

\* User.remove_address
remove_address(address) ==
    /\ password_hash # None
    /\ addresses' = IF address_in(address, addresses)
                    THEN list_remove(addresses, address)
                    ELSE addresses
    /\ call' = [op |-> "remove_address", args |-> <<address>>, value |-> None]
    /\ UNCHANGED <<password_hash, password, userFrame>>

\* ------------------------------------------------- constructing products
\* the sizes given to Clothing(...)
SizeArgs == {"XS", "M", "XXL", "XXXL", "m"}

\* Clothing.SIZES
SIZES == {"XS", "S", "M", "L", "XL", "XXL"}

\* what a constructor of a product leaves alone
productFrame == <<shopVars, moneys, userVars, accountVars>>

\* Product.__init__, reached through super().__init__ by the constructor of
\* the class: the product takes Product._next_id, which is then incremented
Product_init(class, args) ==
    /\ Len(constructed) < NumProducts + MaxConstructed
    /\ constructed' = Append(constructed, [id |-> next_id, class |-> class])
    /\ next_id' = next_id + 1
    /\ call' = [op |-> class, args |-> args, value |-> [id |-> next_id]]
    /\ UNCHANGED productFrame

\* Book.__init__
Book_init == Product_init("Book", <<>>)

\* Electronics.__init__
Electronics_init == Product_init("Electronics", <<>>)

\* a constructor that calls super().__init__ before it looks at the size
next_id_after_invalid_size_late(n) == n + 1

\* Product._next_id after Clothing.__init__ raised for the size: the size is
\* looked at before super().__init__ is called
next_id_after_invalid_size(n) == n

\* Clothing.__init__
Clothing_init(size) ==
    IF size \notin SIZES
    THEN /\ call' = [op |-> "Clothing", args |-> <<size>>, value |-> ValueError]
         /\ next_id' = next_id_after_invalid_size(next_id)
         /\ UNCHANGED <<constructed, productFrame>>
    ELSE Product_init("Clothing", <<size>>)

\* ------------------------------------------------------------ BankAccount
\* a Python str; None stands for every value that is not a str
str(s) == [str |-> s]

\* isinstance(x, str)
isinstance_str(x) == "str" \in DOMAIN x

\* the PINs given to the methods of the account
PinArgs ==
    { None, str(<<"1", "2", "3", "4">>), str(<<"4", "3", "2", "1">>),
      str(<<"1", "2", "3">>), str(<<"1", "2", "a", "4">>) }

\* the amounts given to BankAccount(...), deposit and withdraw, in dollars
BalanceArgs == {0 - 1, 0, 2}
DollarArgs == {0 - 1, 0, 1, 2, 10001}

\* the account object
account ==
    [balance |-> balance, pin |-> pin, is_locked |-> is_locked,
     transaction_history |-> transaction_history,
     security_question |-> security_question,
     security_answer |-> security_answer,
     failed_attempts |-> failed_attempts]

\* what a method of the account leaves alone
accountFrame == <<shopVars, moneys, userVars, productVars>>

\* a method has returned: out.self is the object as the method left it,
\* out.result the value returned
returns(op, args, out) ==
    /\ account_number # 0
    /\ Len(out.self.transaction_history) <= MaxHistory
    /\ balance' = out.self.balance
    /\ pin' = out.self.pin
    /\ is_locked' = out.self.is_locked
    /\ transaction_history' = out.self.transaction_history
    /\ security_question' = out.self.security_question
    /\ security_answer' = out.self.security_answer
    /\ failed_attempts' = out.self.failed_attempts
    /\ call' = [op |-> op, args |-> args, value |-> out.result]
    /\ UNCHANGED <<account_number, initial_balance, accountFrame>>

\* initial_balance < 0
BankAccount_init_rejects(balance0) == balance0 < 0

\* BankAccount.__init__, and the attributes SecureBankAccount.__init__ adds
\* (None and None for a BankAccount)
BankAccount_init(balance0, question, answer) ==
    /\ account_number = 0
    /\ IF BankAccount_init_rejects(balance0)
       THEN /\ call' = [op |-> "BankAccount", args |-> <<balance0>>, value |-> ValueError]
            /\ UNCHANGED accountVars
       ELSE /\ account_number' = 1000
            /\ initial_balance' = balance0
            /\ balance' = balance0
            /\ pin' = None
            /\ is_locked' = FALSE
            /\ transaction_history' = <<>>
            /\ security_question' = question
            /\ security_answer' = answer
            /\ failed_attempts' = 0
            /\ call' = [op |-> "BankAccount", args |-> <<balance0>>, value |-> None]
    /\ UNCHANGED accountFrame

\* BankAccount.__add_transaction
add_transaction(self, transaction_type, amount) ==
    [self EXCEPT !.transaction_history =
        Append(@, [type |-> transaction_type, amount |-> amount])]

\* not isinstance(new_pin, str) or len(new_pin) != 4 or not new_pin.isdigit()
pin_is_malformed(new_pin) ==
    \/ ~isinstance_str(new_pin)
    \/ Len(new_pin.str) # 4
    \/ ~isdigit(new_pin.str)

\* a set_pin that does not look at the lock
set_pin_refuses_never(self) == FALSE

\* self.__is_locked, as set_pin reads it
set_pin_refuses(self) == self.is_locked

\* BankAccount.set_pin
BankAccount_set_pin(self, new_pin) ==
    IF set_pin_refuses(self)
    THEN [self |-> self, result |-> [message |-> "Account is locked. Cannot change PIN."]]
    ELSE IF pin_is_malformed(new_pin)
    THEN [self |-> self, result |-> [message |-> "PIN must be a 4-digit string."]]
    ELSE [self |-> add_transaction([self EXCEPT !.pin = new_pin], "PIN_SET", 0),
          result |-> [message |-> "PIN set successfully."]]

\* BankAccount.verify_pin
verify_pin(self, entered_pin) ==
    IF self.pin = None THEN FALSE ELSE self.pin = entered_pin

AccountLocked == [message |-> "Account is locked. Please contact customer service."]

\* amount <= 0
deposit_rejects(amount) == amount <= 0

\* BankAccount.deposit
BankAccount_deposit(self, amount, entered_pin) ==
    IF self.is_locked
    THEN [self |-> self, result |-> AccountLocked]
    ELSE IF deposit_rejects(amount)
    THEN [self |-> self, result |-> [message |-> "Deposit amount must be positive."]]
    ELSE IF amount > 10000 /\ ~verify_pin(self, entered_pin)
    THEN [self |-> self, result |-> [message |-> "PIN required for deposits over $10,000."]]
    ELSE [self |-> add_transaction([self EXCEPT !.balance = @ + amount], "DEPOSIT", amount),
          result |-> [message |-> "Successfully deposited", amount |-> amount,
                      balance |-> self.balance + amount]]

\* a withdrawal that is not compared with the balance
insufficient_funds_never(amount, available) == FALSE

\* amount > self.__balance
insufficient_funds(amount, available) == amount > available

\* a record of the amount without its sign
recorded_withdrawal_unsigned(amount) == amount

\* -amount
recorded_withdrawal(amount) == 0 - amount

\* BankAccount.withdraw
BankAccount_withdraw(self, amount, entered_pin) ==
    IF self.is_locked
    THEN [self |-> self, result |-> AccountLocked]
    ELSE IF ~verify_pin(self, entered_pin)
    THEN [self |-> self, result |-> [message |-> "Invalid PIN. Withdrawal denied."]]
    ELSE IF amount <= 0
    THEN [self |-> self, result |-> [message |-> "Withdrawal amount must be positive."]]
    ELSE IF insufficient_funds(amount, self.balance)
    THEN [self |-> self, result |-> [message |-> "Insufficient funds.",
                                     balance |-> self.balance]]
    ELSE [self |-> add_transaction([self EXCEPT !.balance = @ - amount],
                                   "WITHDRAWAL", recorded_withdrawal(amount)),
          result |-> [message |-> "Successfully withdrew", amount |-> amount,
                      balance |-> self.balance - amount]]

\* BankAccount.get_balance
BankAccount_get_balance(self, entered_pin) ==
    IF self.is_locked
    THEN [self |-> self, result |-> AccountLocked]
    ELSE IF ~verify_pin(self, entered_pin)
    THEN [self |-> self, result |-> [message |-> "Invalid PIN. Access denied."]]
    ELSE [self |-> self, result |-> [message |-> "Current balance", balance |-> self.balance]]

\* BankAccount.lock_account
BankAccount_lock_account(self) ==
    [self |-> add_transaction([self EXCEPT !.is_locked = TRUE],
                              "LOCK", 0),
     result |-> [message |-> "Account has been locked for security."]]

\* BankAccount.get_transaction_history: the last ten transactions
BankAccount_get_transaction_history(self, entered_pin) ==
    IF self.is_locked
    THEN [self |-> self, result |-> AccountLocked]
    ELSE IF ~verify_pin(self, entered_pin)
    THEN [self |-> self, result |-> [message |-> "Invalid PIN. Access denied."]]
    ELSE IF self.transaction_history = <<>>
    THEN [self |-> self, result |-> [message |-> "No transactions found."]]
    ELSE [self |-> self,
          result |-> [message |-> "Transaction History",
                      transactions |->
                         LET n == Len(self.transaction_history) IN
                         SubSeq(self.transaction_history,
                                IF n > 10 THEN n - 9 ELSE 1, n)]]

set_pin(new_pin) == returns("set_pin", <<new_pin>>, BankAccount_set_pin(account, new_pin))

deposit(amount, entered_pin) ==
    returns("deposit", <<amount, entered_pin>>,
            BankAccount_deposit(account, amount, entered_pin))

withdraw(amount, entered_pin) ==
    returns("withdraw", <<amount, entered_pin>>,
            BankAccount_withdraw(account, amount, entered_pin))

get_balance(entered_pin) ==
    returns("get_balance", <<entered_pin>>, BankAccount_get_balance(account, entered_pin))

lock_account == returns("lock_account", <<>>, BankAccount_lock_account(account))

get_transaction_history(entered_pin) ==
    returns("get_transaction_history", <<entered_pin>>,
            BankAccount_get_transaction_history(account, entered_pin))

\* ------------------------------------------------------ SecureBankAccount
\* SecureBankAccount.__max_attempts
max_attempts == 3

\* the security questions and answers given to the account
QuestionArgs == { None, str("Favourite colour?") }
AnswerArgs == { str("blue"), str("Blue"), str("red") }

\* str.lower() over the answers
lower(s) == IF s = str("Blue") THEN str("blue") ELSE s

\* SecureBankAccount.__init__: the answer is stored in lower case
SecureBankAccount_init(balance0, question, answer) ==
    BankAccount_init(balance0, question,
                     IF answer \in {None, str("")} THEN None ELSE lower(answer))

\* SecureBankAccount.set_security_question
SecureBankAccount_set_security_question(self, question, answer, entered_pin) ==
    IF ~verify_pin(self, entered_pin)
    THEN [self |-> self, result |-> [message |-> "Invalid PIN. Cannot set security question."]]
    ELSE IF question \in {None, str("")} \/ answer \in {None, str("")}
    THEN [self |-> self, result |-> [message |-> "Both question and answer are required."]]
    ELSE [self |-> [self EXCEPT !.security_question = question,
                                !.security_answer = lower(answer)],
          result |-> [message |-> "Security question set successfully."]]

\* a reset that counts no failed attempt
attempts_exhausted_never(failed) == FALSE

\* self.__failed_attempts >= self.__max_attempts
attempts_exhausted(failed) == failed >= max_attempts

\* SecureBankAccount.reset_pin_with_security
SecureBankAccount_reset_pin_with_security(self, new_pin, answer) ==
    IF attempts_exhausted(self.failed_attempts)
    THEN [self |-> BankAccount_lock_account(self).self,
          result |-> [message |-> "Too many failed attempts. Account locked."]]
    ELSE IF self.security_question \in {None, str("")}
            \/ self.security_answer \in {None, str("")}
    THEN [self |-> self, result |-> [message |-> "No security question set for this account."]]
    ELSE IF lower(answer) # self.security_answer
    THEN [self |-> [self EXCEPT !.failed_attempts = @ + 1],
          result |-> [message |-> "Incorrect security answer.",
                      remaining |-> max_attempts - (self.failed_attempts + 1)]]
    ELSE LET verified == [self EXCEPT !.failed_attempts = 0] IN
         IF pin_is_malformed(new_pin)
         THEN [self |-> verified, result |-> [message |-> "PIN must be a 4-digit string."]]
         ELSE LET out == BankAccount_set_pin(verified, new_pin) IN
              IF out.result.message = "PIN set successfully."
              THEN [self |-> out.self,
                    result |-> [message |-> "PIN reset successfully using security question."]]
              ELSE out

set_security_question(question, answer, entered_pin) ==
    returns("set_security_question", <<question, answer, entered_pin>>,
            SecureBankAccount_set_security_question(account, question, answer, entered_pin))

reset_pin_with_security(new_pin, answer) ==
    returns("reset_pin_with_security", <<new_pin, answer>>,
            SecureBankAccount_reset_pin_with_security(account, new_pin, answer))

\* the values the methods of the account return when they did what they
\* were called for; every other value returned is a refusal
Succeeded(value) ==
    value.message \in
       { "PIN set successfully.", "Successfully deposited", "Successfully withdrew",
         "Current balance", "Account has been locked for security.",
         "Transaction History", "No transactions found.",
         "Security question set successfully.",
         "PIN reset successfully using security question." }

Rejected(value) == ~Succeeded(value)

\* ----------------------------------------------------------- specifications
CartStep ==
    \/ \E p \in Products, v \in BOOLEAN : set_in_stock(p, v)
    \/ \E p \in Products, q \in QtyArgs : add_item(p, q)
    \/ \E p \in Products : remove_item(p)
    \/ \E p \in Products, q \in QtyArgs : update_quantity(p, q)
    \/ clear
    \/ \E p \in Products, pct \in Percentages : apply_discount_to_item(p, pct)

OrderStep ==
    \/ \E pm \in PaymentMethods : set_payment_method(pm)
    \/ \E now \in Clocks : process_payment(now)
    \/ ship_order
    \/ deliver_order
    \/ cancel_order

\* every call, in any order
Next == CartStep \/ Order_init \/ OrderStep

Spec == Init /\ [][Next]_vars

\* the cart alone: no order is constructed
NextCart == CartStep

SpecCart == Init /\ [][NextCart]_vars

\* the cart and an order constructed from it, whose methods are not called
NextSnapshot ==
    \/ \E p \in Products, q \in QtyArgs : add_item(p, q)
    \/ \E p \in Products : remove_item(p)
    \/ \E p \in Products, q \in QtyArgs : update_quantity(p, q)
    \/ clear
    \/ \E p \in Products, pct \in Percentages : apply_discount_to_item(p, pct)
    \/ Order_init

SpecSnapshot == Init /\ [][NextSnapshot]_vars

\* the order: the cart is filled, the order is constructed from it, and from
\* then on only the order's methods are called
NextOrder ==
    \/ status = "NoOrder" /\ \E p \in Products, q \in QtyArgs : add_item(p, q)
    \/ status = "NoOrder" /\ clear
    \/ Order_init
    \/ OrderStep

SpecOrder == Init /\ [][NextOrder]_vars

\* Money: two operands and the operations on them
NextMoney ==
    \/ \E x \in AmountArgs, c \in CurrencyArgs : call_Money(x, c)
    \/ \E x, y \in AmountArgs \cap Nat, c \in CurrencyArgs : call_Money_plus_Money(x, y, c)
    \/ \E self, other \in Operands : call_add(self, other)
    \/ \E self, other \in Operands : call_sub(self, other)
    \/ \E self \in Operands, scalar \in ScalarArgs : call_mul(self, scalar)
    \/ \E self, other \in Operands : call_eq(self, other)
    \/ \E self, other \in Operands : call_lt(self, other)
    \/ \E self \in Operands : call_hash(self)
    \/ \E self \in Operands : call_str(self)

SpecMoney == InitMoney /\ [][NextMoney]_vars

\* the products and the payment strategies, called on their own
NextStrategies ==
    \/ \E p \in Products, pct \in PercentageArgs : call_apply_discount(p, pct)
    \/ \E pm \in PaymentMethods \cup CardArgs, now \in Clocks :
          call_validate_payment_info(pm, now)
    \/ \E pm \in PaymentMethods, now \in Clocks : call_process_payment(pm, now)

SpecStrategies == Init /\ [][NextStrategies]_vars

\* a user and their password
NextUser ==
    \/ \E pw \in PasswordArgs : call_verify_password(pw)
    \/ \E old_password, new_password \in PasswordArgs :
          change_password(old_password, new_password)

SpecUser == InitUser /\ [][NextUser]_vars

\* a catalog in dollars, no user and no account
InitAccount == Init /\ \A p \in Products : price[p].currency = "USD"

\* the constructors of the products
NextProducts ==
    \/ Book_init
    \/ Electronics_init
    \/ \E size \in SizeArgs : Clothing_init(size)

SpecProducts == InitAccount /\ [][NextProducts]_vars

\* a BankAccount
NextAccount ==
    \/ \E balance0 \in BalanceArgs : BankAccount_init(balance0, None, None)
    \/ \E new_pin \in PinArgs : set_pin(new_pin)
    \/ \E amount \in DollarArgs, entered_pin \in PinArgs : deposit(amount, entered_pin)
    \/ \E amount \in DollarArgs, entered_pin \in PinArgs : withdraw(amount, entered_pin)
    \/ \E entered_pin \in PinArgs : get_balance(entered_pin)
    \/ lock_account
    \/ \E entered_pin \in PinArgs : get_transaction_history(entered_pin)

SpecAccount == InitAccount /\ [][NextAccount]_vars

\* the PINs and the amounts given to the methods of a SecureBankAccount
SecurePinArgs == { str(<<"1", "2", "3", "4">>), str(<<"4", "3", "2", "1">>), str(<<"1", "2">>) }
SecureDollarArgs == {1}

\* a SecureBankAccount
NextSecure ==
    \/ \E question \in QuestionArgs, answer \in {None, str("Blue")} :
          SecureBankAccount_init(1, question, answer)
    \/ \E new_pin \in SecurePinArgs : set_pin(new_pin)
    \/ \E amount \in SecureDollarArgs, entered_pin \in SecurePinArgs :
          deposit(amount, entered_pin)
    \/ \E amount \in SecureDollarArgs, entered_pin \in SecurePinArgs :
          withdraw(amount, entered_pin)
    \/ \E entered_pin \in SecurePinArgs : get_balance(entered_pin)
    \/ lock_account
    \/ \E entered_pin \in SecurePinArgs : get_transaction_history(entered_pin)
    \/ \E question \in QuestionArgs, answer \in AnswerArgs, entered_pin \in SecurePinArgs :
          set_security_question(question, answer, entered_pin)
    \/ \E new_pin \in SecurePinArgs, answer \in AnswerArgs :
          reset_pin_with_security(new_pin, answer)

SpecSecure == InitAccount /\ [][NextSecure]_vars

\* a user and their addresses
NextAddresses ==
    \/ \E a, b \in AddressArgs : call_Address_eq(a, b)
    \/ \E a \in AddressArgs : add_address(a)
    \/ \E a \in AddressArgs : remove_address(a)

InitAddresses == InitUser /\ password = chars("a", 8)

SpecAddresses == InitAddresses /\ [][NextAddresses]_vars

\* ------------------------------------------------------------------ views
CartLines == Lines(heap, cart_items)
OrderLines == Lines(heap, order_items)
OrderProducts == {OrderLines[i].product : i \in 1..Len(order_items)}
CartProducts == {CartLines[i].product : i \in 1..Len(cart_items)}

\* ------------------------------------------------------------------ claims

\* C1: every change of an order's status follows one of the edges
\* Pending->Paid, Pending->Payment Failed, Paid->Shipped, Shipped->Delivered,
\* {Pending, Paid, Payment Failed}->Cancelled; Delivered and Cancelled are
\* never left.  (The construction of the order, NoOrder->Pending, is not a
\* change of an order's status.)
C1_Edges ==
    { <<"Pending", "Paid">>, <<"Pending", "Payment Failed">>, <<"Paid", "Shipped">>,
      <<"Shipped", "Delivered">>, <<"Pending", "Cancelled">>, <<"Paid", "Cancelled">>,
      <<"Payment Failed", "Cancelled">> }

C1_StatusFollowsEdges ==
    [][status # "NoOrder" /\ status' # status => <<status, status'>> \in C1_Edges]_vars

\* C2: once an order has reached Shipped (or Delivered), no later sequence of
\* its operations brings it to Cancelled.
C2_ShippedNeverCancelled == ever_shipped => status # "Cancelled"

\* C3: process_payment called on an order that is Paid, Shipped, Delivered or
\* Cancelled raises a state error and leaves status and transaction id
\* unchanged.
C3_ProcessPaymentRequiresPending ==
    [][last'.op = "process_payment"
         /\ status \in {"Paid", "Shipped", "Delivered", "Cancelled"}
       => /\ last'.outcome = "ValueError"
          /\ status' = status
          /\ transaction_id' = transaction_id]_vars

\* C4: ship_order sets the status to Shipped exactly when it is Paid, and
\* deliver_order sets it to Delivered exactly when it is Shipped; in any other
\* status each raises an error and leaves the status unchanged.
C4_ShipDeliverPrecondition ==
    [][/\ last'.op = "ship_order" =>
            IF status = "Paid"
            THEN status' = "Shipped" /\ last'.outcome = "None"
            ELSE status' = status /\ last'.outcome = "ValueError"
       /\ last'.op = "deliver_order" =>
            IF status = "Shipped"
            THEN status' = "Delivered" /\ last'.outcome = "None"
            ELSE status' = status /\ last'.outcome = "ValueError"]_vars

\* ship_order was called on a Delivered order (shipped and delivered before)
\* and was rejected
C4_Witness ==
    status = "Delivered" /\ last.op = "ship_order" /\ last.outcome = "ValueError"

\* C5: cancel_order raises an error and leaves the status unchanged when the
\* status is Shipped or Delivered; when it is Pending, Paid or Payment Failed
\* it sets the status to Cancelled.
C5_CancelPrecondition ==
    [][last'.op = "cancel_order" =>
         IF status \in {"Shipped", "Delivered"}
         THEN status' = status /\ last'.outcome = "ValueError"
         ELSE status \in {"Pending", "Paid", "Payment Failed"} =>
                 status' = "Cancelled" /\ last'.outcome = "None"]_vars

\* cancel_order was called on a Shipped order and was rejected
C5_Witness ==
    status = "Shipped" /\ last.op = "cancel_order" /\ last.outcome = "ValueError"

C7_OrderLinesFrozen ==
    [][status # "NoOrder" => OrderLines' = OrderLines]_vars

\* the cart's line for a product of the order no longer has the quantity the
\* order has for it
C7_Witness ==
    /\ status = "Pending"
    /\ last.op \in {"add_item", "update_quantity"} /\ last.outcome = "None"
    /\ \E i \in 1..Len(cart_items), j \in 1..Len(order_items) :
          /\ CartLines[i].product = OrderLines[j].product
          /\ CartLines[i].quantity # OrderLines[j].quantity

C9_EmptyCartRejected ==
    [][last'.op = "Order" /\ cart_items = <<>>
       => /\ last'.outcome = "ValueError"
          /\ status' = "NoOrder"
          /\ order_items' = <<>>]_vars

\* the construction was attempted from an empty cart
C9_Witness ==
    /\ last.op = "Order" /\ last.outcome = "ValueError"
    /\ cart_items = <<>> /\ status = "NoOrder"

\* C10: no two lines of the cart refer to the same product, so len(cart) is
\* the number of distinct products; add_item for a product that has a line
\* adds the quantity to that line and leaves every other line and len(cart)
\* unchanged.
C10_OneLinePerProduct ==
    [][/\ \A i, j \in 1..Len(cart_items') :
            i < j => heap'[cart_items'[i]].product # heap'[cart_items'[j]].product
       /\ last'.op = "add_item" =>
            \A p \in CartProducts, q \in QtyArgs :
               (in_stock[p] /\ add_item(p, q)) =>
                  /\ last'.outcome = "None"
                  /\ Len(cart_items') = Len(cart_items)
                  /\ CartLines' = [CartLines EXCEPT
                        ![FirstLine(heap, cart_items, p)].quantity = @ + q]]_vars

\* add_item has added to an existing line: only so does a line get a
\* quantity that CartItem's constructor rejects
C10_Witness ==
    /\ last.op = "add_item" /\ last.outcome = "None"
    /\ Len(cart_items) = 2
    /\ \E i \in 1..Len(cart_items) : CartLines[i].quantity <= 0

\* C11: after any sequence of add_item, remove_item, update_quantity and
\* clear, with any integer quantity arguments, every line of the cart has a
\* positive quantity.
C11_QuantitiesPositive ==
    \A i \in 1..Len(cart_items) : CartLines[i].quantity > 0

\* C12: add_item for a product that is not in stock raises an error and leaves
\* the cart's lines and quantities unchanged, whether or not the product has a
\* line in the cart.
C12_OutOfStockRejected ==
    [][last'.op = "add_item" =>
         \A p \in Products, q \in QtyArgs :
            (~in_stock[p] /\ add_item(p, q)) =>
               /\ last'.outcome = "ValueError"
               /\ CartLines' = CartLines]_vars

\* add_item was refused while no product was in stock and every product had a
\* line in the cart
C12_Witness ==
    /\ last.op = "add_item" /\ last.outcome = "ValueError"
    /\ \A p \in Products : ~in_stock[p] /\ p \in CartProducts

\* C13: update_quantity(product, n) with n <= 0 removes the product's line (and
\* does nothing, without error, if there is none); with n > 0 and the product
\* in the cart it sets that line's quantity to n and changes no other line;
\* with n > 0 and the product not in the cart it raises an error and leaves
\* the cart unchanged.
C13_UpdateQuantity ==
    [][last'.op = "update_quantity" =>
         \A p \in Products, n \in QtyArgs :
            update_quantity(p, n) =>
               IF n <= 0
               THEN /\ last'.outcome = "None"
                    /\ CartLines' = SelectSeq(CartLines, LAMBDA line : line.product # p)
               ELSE IF p \in CartProducts
               THEN /\ last'.outcome = "None"
                    /\ CartLines' = [CartLines EXCEPT
                          ![FirstLine(heap, cart_items, p)].quantity = n]
               ELSE /\ last'.outcome = "ValueError"
                    /\ CartLines' = CartLines]_vars

\* update_quantity has returned on a cart of two lines whose quantities differ
C13_Witness ==
    /\ last.op = "update_quantity" /\ last.outcome = "None"
    /\ Len(cart_items) = 2
    /\ CartLines[1].quantity # CartLines[2].quantity

\* the sum over the lines of price times quantity, in cents
SumOfLines(lines) ==
    LET F[i \in 0..Len(lines)] ==
            IF i = 0 THEN 0
            ELSE F[i - 1] + price[lines[i].product].amount * lines[i].quantity
    IN  F[Len(lines)]

\* the sum over the lines of shipping weight times quantity
WeightOfLines(lines) ==
    LET F[i \in 0..Len(lines)] ==
            IF i = 0 THEN 0
            ELSE F[i - 1] + get_shipping_weight(lines[i].product) * lines[i].quantity
    IN  F[Len(lines)]

\* C14: in every cart state that cart operations reach, reading
\* ShoppingCart.total_amount yields the sum over the current lines of price
\* times quantity; for an empty cart it yields zero.
C14_TotalIsSumOfLines ==
    /\ ~IsError(ShoppingCart_total_amount(heap, cart_items))
    /\ ShoppingCart_total_amount(heap, cart_items).amount = SumOfLines(CartLines)
    /\ cart_items = <<>> => ShoppingCart_total_amount(heap, cart_items).amount = 0

\* C15: Order.total_amount always yields subtotal + shipping + tax: subtotal
\* the sum of the order's line totals, shipping 5.99 when the total shipping
\* weight is at most 1, 9.99 when it is above 1 and at most 5, 15.99
\* otherwise, tax 8.5% of the subtotal (a Money, so to the cent).
C15_ExpectedTotal ==
    SumOfLines(OrderLines)
    + (IF WeightOfLines(OrderLines) <= 1000 THEN 599
       ELSE IF WeightOfLines(OrderLines) <= 5000 THEN 999 ELSE 1599)
    + Round2(SumOfLines(OrderLines) * 85, 1000)

C15_TotalIsSubtotalShippingTax ==
    status # "NoOrder" =>
        /\ ~IsError(total_amount(heap, order_items))
        /\ total_amount(heap, order_items).amount = C15_ExpectedTotal

\* C16: every Money that exists has a non-negative amount: Money(amount) with
\* a negative amount raises, a - b whose result would be below zero raises,
\* a * scalar with a negative scalar raises, and the Money every successful
\* +, - and * returns has amount >= 0.
C16_MoneyNeverNegative ==
    [][/\ \A i \in 1..Len(moneys') : moneys'[i].amount >= 0
       /\ call'.op = "Money" /\ call'.args[1] < 0 => IsError(call'.value)
       /\ call'.op = "__sub__"
            /\ moneys[call'.args[1]].amount < moneys[call'.args[2]].amount
          => IsError(call'.value)
       /\ call'.op = "__mul__" /\ call'.args[2] < 0 => IsError(call'.value)
       /\ IsError(call'.value) => moneys' = moneys]_vars

\* a - b was refused for two operands of one currency with a below b
C16_Witness ==
    /\ call.op = "__sub__" /\ IsError(call.value)
    /\ moneys[call.args[1]].currency = moneys[call.args[2]].currency
    /\ moneys[call.args[1]].amount < moneys[call.args[2]].amount
    /\ Len(moneys) = 2

\* C17 as stated: for all non-negative a and b, Money(a, c) + Money(b, c) is a
\* Money with amount a + b and currency c; adding or subtracting two Money
\* values of different currencies raises the currency-mismatch error and
\* yields no value.
C17_CurrencyMismatchRaises ==
    call'.op \in {"__add__", "__sub__"}
      /\ moneys[call'.args[1]].currency # moneys[call'.args[2]].currency
    => call'.value = CurrencyMismatch /\ moneys' = moneys

C17_SumOfAnyAmounts ==
    [][/\ call'.op = "Money+Money" =>
            /\ ~IsError(call'.value)
            /\ moneys'[3].amount * 10 = call'.args[1] + call'.args[2]
            /\ moneys'[3].currency = call'.args[3]
       /\ C17_CurrencyMismatchRaises]_vars

\* C17 amended: for all non-negative a and b that are whole numbers of cents,
\* Money(a, c) + Money(b, c) is a Money with amount a + b and currency
\* c.upper(); adding or subtracting two Money values of different currencies
\* raises the currency-mismatch error and yields no value.
C17_SumOfWholeCents ==
    [][/\ call'.op = "Money+Money"
            /\ call'.args[1] % 10 = 0 /\ call'.args[2] % 10 = 0 =>
            /\ ~IsError(call'.value)
            /\ moneys'[3].amount * 10 = call'.args[1] + call'.args[2]
            /\ moneys'[3].currency = upper(call'.args[3])
       /\ C17_CurrencyMismatchRaises]_vars

\* Money(0.01, c) + Money(0.02, c) was evaluated and holds 0.03
C17_Witness ==
    /\ call.op = "Money+Money" /\ call.args[1] = 10 /\ call.args[2] = 20
    /\ Len(moneys) = 3 /\ moneys[3].amount = 3

\* C18: no operation of Money (+, -, *, ==, <, hash, str) changes the amount
\* or the currency of an operand; each arithmetic operation returns a new
\* Money, which is neither operand, and the operands are unchanged also when
\* the operation raises.
C18_Operations == {"__add__", "__sub__", "__mul__", "__eq__", "__lt__", "__hash__", "__str__"}

C18_OperandsUnchanged ==
    [][call'.op \in C18_Operations =>
         /\ \A i \in Operands : moneys'[i] = moneys[i]
         /\ call'.op \in {"__add__", "__sub__", "__mul__"} /\ ~IsError(call'.value) =>
               /\ call'.value.ref \notin Operands
               /\ call'.value.ref \in 1..Len(moneys')]_vars

\* a + a has returned a Money that holds twice the amount a still holds
C18_Witness ==
    /\ call.op = "__add__" /\ call.args = <<1, 1>> /\ ~IsError(call.value)
    /\ moneys[1].amount > 0
    /\ moneys[call.value.ref].amount = 2 * moneys[1].amount

\* C19: Product.apply_discount(p) raises an error when p is outside [0, 100];
\* otherwise it returns price * (1 - p/100); in both cases the product's
\* stored price is unchanged.
C19_ApplyDiscount ==
    [][call'.op = "apply_discount" =>
         /\ price' = price
         /\ IF call'.args[2] < 0 \/ call'.args[2] > 100
            THEN IsError(call'.value)
            ELSE /\ ~IsError(call'.value)
                 /\ call'.value.num * 100 =
                       price[call'.args[1]].amount * (100 - call'.args[2])
                          * call'.value.den]_vars

\* apply_discount(10) has returned nine tenths of a price, not a whole number
\* of cents
C19_Witness ==
    /\ call.op = "apply_discount" /\ call.args[2] = 10 /\ ~IsError(call.value)
    /\ call.value.num * 10 = price[call.args[1]].amount * 9 * call.value.den
    /\ call.value.num % call.value.den # 0

\* C20: CreditCard and PayPal fail closed: whenever validate_payment_info() is
\* false, process_payment(amount) returns success=false and transaction_id
\* null; success=true with a transaction id is returned only when
\* validate_payment_info() is true.
C20_FailClosed ==
    [][call'.op = "process_payment" =>
         IF validate_payment_info(call'.args[1], call'.args[2])
         THEN call'.value.success /\ call'.value.transaction_id # 0
         ELSE ~call'.value.success /\ call'.value.transaction_id = 0]_vars

\* a credit card with a CVV of three characters, expired, was refused
C20_Witness ==
    /\ call.op = "process_payment" /\ ~call.value.success
    /\ call.args[1].kind = "CreditCard" /\ Len(call.args[1].cvv) = 3
    /\ uuids > 0

\* ---------------------------------------------------------------------- C21
\* the card's expiry (year, month) is not before the clock's
not_expired(pm, now) ==
    \/ pm.expiry_year > now.year
    \/ pm.expiry_year = now.year /\ pm.expiry_month >= now.month

\* C21: CreditCard.validate_payment_info returns true exactly when the
\* card's expiry (year, month) is not before the current (year, month) and
\* the CVV consists of 3 or 4 digits; for any other CVV (wrong length or a
\* non-digit character) it returns false.
C21_ValidatesExpiryAndCvvDigits ==
    [][(call'.op = "validate_payment_info" /\ call'.args[1].kind = "CreditCard")
        => call'.value.bool =
             (/\ not_expired(call'.args[1], call'.args[2])
              /\ Len(call'.args[1].cvv) \in {3, 4}
              /\ isdigit(call'.args[1].cvv))]_vars

\* what the code does: only the length of the CVV is looked at
C21_ValidatesExpiryAndCvvLength ==
    [][(call'.op = "validate_payment_info" /\ call'.args[1].kind = "CreditCard")
        => call'.value.bool =
             (/\ not_expired(call'.args[1], call'.args[2])
              /\ Len(call'.args[1].cvv) \in {3, 4})]_vars

\* a card that has not expired and whose CVV is three letters is valid
C21_LettersCvvValid ==
    /\ call.op = "validate_payment_info"
    /\ call.args[1].kind = "CreditCard"
    /\ call.args[1].cvv = <<"a", "b", "c">>
    /\ call.value.bool
\* ---------------------------------------------------------------------- C27
\* C27: Order.process_payment called before any payment method has been set
\* fails with an error and leaves the order's status (Pending) and its
\* transaction id (null) unchanged.
C27_NoPaymentMethod ==
    [][(last'.op = "process_payment" /\ status # "NoOrder" /\ payment_method = None)
        => /\ last'.outcome = "ValueError"
           /\ ~last'.result.called
           /\ status' = status
           /\ transaction_id' = transaction_id
           /\ transaction_id = 0]_vars

\* a Pending order without a payment method has just refused to be paid
C27_Witness ==
    /\ last.op = "process_payment"
    /\ last.outcome = "ValueError"
    /\ payment_method = None
    /\ status = "Pending"
    /\ transaction_id = 0

\* ---------------------------------------------------------------------- C28
\* C28: in every reachable state of an Order, status Pending implies the
\* transaction id is null, and status Paid, Shipped or Delivered implies the
\* transaction id is non-null.
C28_TransactionIdByStatus ==
    /\ status = "Pending" => transaction_id = 0
    /\ status \in {"Paid", "Shipped", "Delivered"} => transaction_id # 0

\* a delivered order, and an order paid a second time after it was shipped
C28_Witness ==
    \/ status = "Delivered" /\ transaction_id # 0
    \/ status = "Paid" /\ ever_shipped /\ transaction_id = MaxUuid
\* ---------------------------------------------------------------------- C22
\* C22: User.verify_password(p) returns true exactly when p is the most
\* recently successfully set password; change_password with a wrong old
\* password returns false and leaves the stored hash unchanged;
\* change_password with a correct old password and a new password shorter
\* than 8 characters raises an error and leaves the stored hash unchanged.
C22_Password ==
    [][/\ \A pw \in PasswordArgs : call_verify_password(pw) =>
              call'.value.bool = (pw = password)
       /\ \A old_password, new_password \in PasswordArgs :
              change_password(old_password, new_password) =>
                 IF old_password # password
                 THEN /\ call'.value = [bool |-> FALSE]
                      /\ password_hash' = password_hash
                 ELSE IF Len(new_password) < 8
                 THEN /\ IsError(call'.value)
                      /\ password_hash' = password_hash
                 ELSE /\ call'.value = [bool |-> TRUE]
                      /\ password_hash' = hash_password(new_password)]_vars

\* a too short new password has just been refused to the holder of the
\* right old password, after a successful change
C22_Witness ==
    /\ call.op = "change_password"
    /\ IsError(call.value)
    /\ call.args[1] = password
    /\ Len(call.args[2]) = 7
    /\ password = chars("b", 9)
    /\ verify_password(password)

\* ---------------------------------------------------------------------- C23
\* C23: two Address objects are equal exactly when street, city, state, zip
\* code and country are all pairwise equal, and User.add_address keeps two
\* addresses that differ in any one of these fields as two separate entries.
C23_AddressEquality ==
    [][/\ call'.op = "Address.__eq__" =>
              call'.value.bool = (call'.args[1] = call'.args[2])
       /\ (call'.op = "add_address" /\ password_hash # None) =>
              \E i \in 1..Len(addresses') : addresses'[i] = call'.args[1]]_vars

\* what the code does: the country is not compared
C23_AddressEqualityButCountry ==
    [][/\ call'.op = "Address.__eq__" =>
              call'.value.bool =
                 (\A f \in {"street", "city", "state", "zip_code"} :
                     call'.args[1][f] = call'.args[2][f])
       /\ (call'.op = "add_address" /\ password_hash # None) =>
              \E i \in 1..Len(addresses') :
                 \A f \in {"street", "city", "state", "zip_code"} :
                    addresses'[i][f] = call'.args[1][f]]_vars

\* the address in Canada was added to a user who holds the same street
\* address in the USA, and is not among the user's addresses
C23_CountryLost ==
    /\ call.op = "add_address"
    /\ call.args[1].country = "Canada"
    /\ Len(addresses) = 1
    /\ addresses[1].country = "USA"
\* ---------------------------------------------------------------------- C24
\* C24: product ids are assigned from an auto-incrementing counter: every
\* successfully constructed product gets an id strictly greater than the id
\* of every product constructed earlier, and a Clothing construction that
\* fails size validation consumes no id.
C24_ProductIds ==
    [][/\ (call'.op \in {"Book", "Electronics", "Clothing"} /\ ~IsError(call'.value)) =>
              /\ Len(constructed') = Len(constructed) + 1
              /\ constructed'[Len(constructed')].id = call'.value.id
              /\ \A i \in 1..Len(constructed) : constructed[i].id < call'.value.id
       /\ (call'.op = "Clothing" /\ call'.args[1] \notin SIZES) =>
              /\ IsError(call'.value)
              /\ next_id' = next_id
              /\ constructed' = constructed]_vars

\* a Clothing of size XXXL was refused after a product had been constructed,
\* and the next id is still the one after that product's
C24_Witness ==
    /\ call.op = "Clothing"
    /\ call.args = <<"XXXL">>
    /\ IsError(call.value)
    /\ Len(constructed) = NumProducts + 1
    /\ next_id = constructed[Len(constructed)].id + 1
\* ---------------------------------------------------------------------- C25
\* C25: BankAccount's balance is never negative: construction with a
\* negative initial balance fails, a withdrawal of more than the balance is
\* rejected, and non-positive deposit and withdrawal amounts are rejected.
C25_BalanceNeverNegative ==
    /\ [](balance >= 0)
    /\ [][/\ (call'.op = "BankAccount" /\ call'.args[1] < 0) =>
                 /\ IsError(call'.value)
                 /\ account_number' = 0
          /\ (call'.op = "withdraw" /\ account_number # 0
                 /\ (call'.args[1] > balance \/ call'.args[1] <= 0)) =>
                 /\ Rejected(call'.value)
                 /\ balance' = balance
          /\ (call'.op = "deposit" /\ account_number # 0 /\ call'.args[1] <= 0) =>
                 /\ Rejected(call'.value)
                 /\ balance' = balance]_vars

\* two dollars were refused to the holder of the PIN of an account that
\* holds one
C25_Witness ==
    /\ call.op = "withdraw"
    /\ call.args[1] = 2
    /\ call.value.message = "Insufficient funds."
    /\ balance = 1

\* ---------------------------------------------------------------------- C26
\* C26: once a BankAccount (or SecureBankAccount) is locked it stays locked
\* forever, and every later deposit, withdraw, set_pin, get_balance,
\* get_transaction_history and reset_pin_with_security call is rejected and
\* leaves balance and PIN unchanged.
C26_LockedForever ==
    [][is_locked =>
          /\ is_locked'
          /\ call'.op \in {"deposit", "withdraw", "set_pin", "get_balance",
                            "get_transaction_history", "reset_pin_with_security"} =>
                /\ Rejected(call'.value)
                /\ balance' = balance
                /\ pin' = pin]_vars

\* the right security answer and a well-formed PIN were given to a locked
\* account that has a PIN, and the reset was refused
C26_Witness ==
    /\ is_locked
    /\ pin # None
    /\ call.op = "reset_pin_with_security"
    /\ ~pin_is_malformed(call.args[1])
    /\ lower(call.args[2]) = security_answer
    /\ call.value.message = "Account is locked. Cannot change PIN."

\* ---------------------------------------------------------------------- C29
\* the sum of the amounts of the transactions
RECURSIVE SumOfAmounts(_)
SumOfAmounts(history) ==
    IF history = <<>> THEN 0
    ELSE history[1].amount + SumOfAmounts(Tail(history))

\* C29: the balance of a BankAccount equals its initial balance plus the sum
\* of the amounts of its transaction history: every successful deposit and
\* withdrawal appends exactly one record with the signed amount, PIN_SET and
\* LOCK records carry amount 0, and a rejected operation appends no record.
C29_BalanceIsSumOfHistory ==
    /\ [](/\ balance = initial_balance + SumOfAmounts(transaction_history)
          /\ \A i \in 1..Len(transaction_history) :
                transaction_history[i].type \in {"PIN_SET", "LOCK"} =>
                   transaction_history[i].amount = 0)
    /\ [][/\ (call'.op = "deposit" /\ Succeeded(call'.value)) =>
                 transaction_history' =
                    Append(transaction_history,
                           [type |-> "DEPOSIT", amount |-> call'.args[1]])
          /\ (call'.op = "withdraw" /\ Succeeded(call'.value)) =>
                 transaction_history' =
                    Append(transaction_history,
                           [type |-> "WITHDRAWAL", amount |-> 0 - call'.args[1]])
          /\ (call'.op \in {"set_pin", "deposit", "withdraw", "get_balance",
                              "get_transaction_history"}
                 /\ account_number # 0 /\ Rejected(call'.value)) =>
                 transaction_history' = transaction_history]_vars

\* a PIN was set, two dollars were deposited and one was withdrawn
C29_Witness ==
    /\ Len(transaction_history) = 3
    /\ transaction_history[1].type = "PIN_SET"
    /\ transaction_history[2] = [type |-> "DEPOSIT", amount |-> 2]
    /\ transaction_history[3] = [type |-> "WITHDRAWAL", amount |-> 0 - 1]
    /\ balance = initial_balance + 1

\* ---------------------------------------------------------------------- C30
\* C30: SecureBankAccount's failed-attempt counter never exceeds 3; a correct
\* security answer given while the counter is below 3 resets it to 0; once
\* the counter has reached 3 no later reset_pin_with_security call changes
\* the PIN: the next such call locks the account.
C30_FailedAttempts ==
    /\ [](failed_attempts <= 3)
    /\ [][(call'.op = "reset_pin_with_security" /\ account_number # 0) =>
               /\ (failed_attempts < 3 /\ security_answer # None
                      /\ lower(call'.args[2]) = security_answer) =>
                     failed_attempts' = 0
               /\ failed_attempts >= 3 =>
                     /\ pin' = pin
                     /\ is_locked']_vars

\* after three wrong answers the next reset has locked the account, whose
\* PIN is the one set before
C30_Witness ==
    /\ failed_attempts = 3
    /\ is_locked
    /\ pin = str(<<"1", "2", "3", "4">>)
    /\ call.op = "reset_pin_with_security"
    /\ call.args = <<str(<<"4", "3", "2", "1">>), str("blue")>>
    /\ call.value.message = "Too many failed attempts. Account locked."
====

